---------------------------- MODULE Spec2Model ----------------------------
(***************************************************************************)
(* Model of the mention engine of the "Active User and Participants"       *)
(* Obsidian plugin (src/src/main.ts, src/src/settings.ts).                 *)
(*                                                                         *)
(* A document text is a sequence of characters.  Every character is a      *)
(* one-letter string, except that the ten letters of the literal           *)
(* "mention://" are kept together as one character, because the patterns   *)
(* of the code use them only as that literal.  Participant ids and names   *)
(* are sequences of characters too.                                        *)
(***************************************************************************)
EXTENDS Integers, Sequences, FiniteSets, TLC

VARIABLES
    tasks,              \* the async handlers that were started: where each
                        \* stands between two awaits, and what it holds
    savedData,          \* data.json: the participants of the last saveData
                        \* and the number of saveSettings calls
    lastEvent,          \* the last event of the user interface and its inputs
    docs,               \* vault: document -> text (app.vault)
    participants,       \* settings.participants
    autoUpdateMentions, \* settings.autoUpdateMentions
    generateButton,     \* the settings tab shows "Generate from vault"
    steps,              \* handlers of the settings tab and the editor that have run
    suggestions,        \* the suggestions of the open autocomplete popup
    hasProcess,         \* the environment defines `process` (desktop)
    searchCall,         \* the last performMentionSearch: its query and the
                        \* computer identifier it got
    externalUserMapping,\* settings.externalUserMapping: computer -> active user id
    phase,              \* which operation ran last
    preDocs,            \* the vault as it was when the last operation started
    preParticipants,    \* settings.participants when the last operation started
    transition,         \* arguments of the last updateMentionsForParticipant / edit
    returned,           \* total returned by the last rewrite pass (-1: none)
    modifyCalls,        \* vault.modify calls of the last operation: <<[file, data]>>
    readCalls,          \* vault.read / cachedRead calls of the last operation
    rewriteCalls,       \* rewrite passes started by the last operation
    thrown,             \* the last operation ended by an exception
    failure,            \* the document whose write / read failed (0: none)
    matchingFiles,      \* result of the last performMentionSearch
    participantIdsToFind \* the ids the last performMentionSearch looked for

vars == <<tasks, savedData, lastEvent,
          docs, participants, autoUpdateMentions, generateButton, steps,
          suggestions, hasProcess, searchCall,
          externalUserMapping, phase, preDocs, preParticipants,
          transition, returned, modifyCalls, readCalls, rewriteCalls, thrown,
          failure, matchingFiles, participantIdsToFind>>

---------------------------------------------------------------------------
(* Bounds of the model *)

\* fragments (mentions, stray characters) typed into the whole vault
MaxFrags == 2
\* entries of settings.participants
MaxParticipants == 2
\* handlers of the settings tab run one after the other
MaxSteps == 3
\* characters of an id or a name that is encoded and decoded again
MaxLen == 3

\* app.vault.getMarkdownFiles(): the vault holds two notes, listed in this order
Files == <<1, 2>>
DocIds == {Files[k] : k \in 1..Len(Files)}

---------------------------------------------------------------------------
(* Characters and the two surface forms *)

MentionScheme == "mention://"

\* participant ids the model draws from: "a", "ab" (a longer id with the
\* same prefix) and "a." (an id with a dot, as "john.doe" in the README)
IdA == <<"a">>
IdAB == <<"a", "b">>
IdADot == <<"a", ".">>
Ids == {IdA, IdAB, IdADot}

NameA == <<"A">>
NameB == <<"B">>
Names == {NameA, NameB}
\* a name that holds the two characters "$&"
NameAmp == <<"$", "&">>
\* the names a rewrite pass is called with
RewriteNames == Names \cup {NameAmp}
\* the user names of the computers that share the vault; the plugin
\* instance of the model runs on ThisComputer
Computers == {"c1", "c2"}
ThisComputer == "c1"
\* "unknown_user_" + Math.random().toString(36).substr(2, 9)
RandomIds == {"unknown_user_1", "unknown_user_2"}
ComputerIds == Computers \cup RandomIds

\* getComputerIdentifier(): the values a call can return. With `process`
\* defined it is the user name of the computer; without, every call draws
\* a new random identifier
getComputerIdentifier(processDefined) ==
    IF processDefined THEN {ThisComputer} ELSE RandomIds

\* externalUserMapping = {}: no computer identifier has an active user
\* (a key that is absent and a key with the value '' both read as << >>)
NoMapping == [c \in ComputerIds |-> << >>]

NoSearch == [query |-> << >>, computerId |-> ""]

\* `@[[${id}|${name}]]`
WikilinkText(id, name) == <<"@", "[", "[">> \o id \o <<"|">> \o name \o <<"]", "]">>

\* `@[${name}](mention://${id})`
MentionLinkText(id, name) ==
    <<"@", "[">> \o name \o <<"]", "(", MentionScheme>> \o id \o <<")">>

Ch(text, i) == IF i >= 1 /\ i <= Len(text) THEN text[i] ELSE "EOF"

\* the literal lit stands in text at position i
LitAt(text, i, lit) == \A k \in 1..Len(lit) : Ch(text, i + k - 1) = lit[k]

\* ${oldId} interpolated into a RegExp source without escaping: a "." of the
\* id is the pattern "any character", every other character of the model's
\* ids stands for itself
OldIdAt(text, i, oldId) ==
    \A k \in 1..Len(oldId) :
        /\ Ch(text, i + k - 1) # "EOF"
        /\ oldId[k] = "." \/ Ch(text, i + k - 1) = oldId[k]

\* end of the longest run of characters outside stops that starts at i:
\* the first position >= i that holds a stop character, or Len(text) + 1
RECURSIVE RunEnd(_, _, _)
RunEnd(text, i, stops) ==
    IF i > Len(text) \/ text[i] \in stops THEN i
    ELSE RunEnd(text, i + 1, stops)

\* new RegExp(`@\\[\\[${oldId}\\|[^\\]]*\\]\\]`) tried at position i:
\* the position after the match, or 0
WikilinkOldIdMatch(text, i, oldId) ==
    LET bar == i + 3 + Len(oldId)
        close == RunEnd(text, bar + 1, {"]"})
    IN  IF /\ LitAt(text, i, <<"@", "[", "[">>)
           /\ OldIdAt(text, i + 3, oldId)
           /\ Ch(text, bar) = "|"
           /\ LitAt(text, close, <<"]", "]">>)
        THEN close + 2
        ELSE 0

\* new RegExp(`@\\[[^\\]]*\\]\\(mention://${oldId}\\)`) tried at position i
MentionLinkOldIdMatch(text, i, oldId) ==
    LET close == RunEnd(text, i + 2, {"]"})
        paren == close + 3 + Len(oldId)
    IN  IF /\ LitAt(text, i, <<"@", "[">>)
           /\ LitAt(text, close, <<"]", "(", MentionScheme>>)
           /\ OldIdAt(text, close + 3, oldId)
           /\ Ch(text, paren) = ")"
        THEN paren + 1
        ELSE 0

\* both patterns start with the literal "@"
OldIdMatch(form, text, i, oldId) ==
    IF text[i] # "@" THEN 0
    ELSE IF form = "wikilink" THEN WikilinkOldIdMatch(text, i, oldId)
    ELSE MentionLinkOldIdMatch(text, i, oldId)

\* content.match(regex with flag g): the number of matches, found left to
\* right, each search resuming after the previous match
RECURSIVE CountMatches(_, _, _, _)
CountMatches(form, text, i, oldId) ==
    IF i > Len(text) THEN 0
    ELSE LET e == OldIdMatch(form, text, i, oldId)
         IN  IF e > 0 THEN 1 + CountMatches(form, text, e, oldId)
             ELSE CountMatches(form, text, i + 1, oldId)

\* the text that String.prototype.replace puts in the place of a match
\* when its second argument is a string: "$$" stands for "$" and "$&" for
\* the matched text; the patterns have no group, so "$1" stands for itself,
\* and the characters of "$`" and "$'" are not characters of the model
RECURSIVE ExpandReplacement(_, _)
ExpandReplacement(replacement, matched) ==
    IF replacement = << >> THEN << >>
    ELSE IF Head(replacement) = "$" /\ Len(replacement) >= 2 /\ replacement[2] = "$"
    THEN <<"$">> \o ExpandReplacement(SubSeq(replacement, 3, Len(replacement)), matched)
    ELSE IF Head(replacement) = "$" /\ Len(replacement) >= 2 /\ replacement[2] = "&"
    THEN matched \o ExpandReplacement(SubSeq(replacement, 3, Len(replacement)), matched)
    ELSE <<Head(replacement)>> \o ExpandReplacement(Tail(replacement), matched)

\* content.replace(regex with flag g, replacement)
RECURSIVE ReplaceMatches(_, _, _, _, _)
ReplaceMatches(form, text, i, oldId, replacement) ==
    IF i > Len(text) THEN << >>
    ELSE LET e == OldIdMatch(form, text, i, oldId)
         IN  IF e > 0
             THEN ExpandReplacement(replacement, SubSeq(text, i, e - 1))
                  \o ReplaceMatches(form, text, e, oldId, replacement)
             ELSE <<text[i]>> \o ReplaceMatches(form, text, i + 1, oldId, replacement)

\* the replacement of the first replace call (main.ts:346)
WikilinkReplacement(newName, newId) == WikilinkText(newId, newName)

\* the replacement of the second replace call (main.ts:350)
MentionLinkReplacement(newName, newId) == MentionLinkText(newId, newName)

\* updatedContent of one loop iteration of updateMentionsForParticipant
UpdatedContent(content, oldId, newName, newId) ==
    LET afterWikilink ==
            ReplaceMatches("wikilink", content, 1, oldId,
                           WikilinkReplacement(newName, newId))
    IN  ReplaceMatches("mentionLink", afterWikilink, 1, oldId,
                       MentionLinkReplacement(newName, newId))

wikilinkMatches(content, oldId) == CountMatches("wikilink", content, 1, oldId)

mentionLinkMatches(content, oldId) == CountMatches("mentionLink", content, 1, oldId)

---------------------------------------------------------------------------
(* updateMentionsForParticipant (main.ts:329-360) *)

NoFailure == [read |-> 0, write |-> 0]

\* the accumulated effect of a corpus pass
StartPass(vault) ==
    [docs |-> vault, total |-> 0, modifyCalls |-> << >>, readCalls |-> << >>,
     thrown |-> FALSE]

\* `if (updatedContent !== content)`
ContentWasUpdatedAlways(updatedContent, content) == TRUE

ContentWasUpdated(updatedContent, content) == updatedContent # content

\* one iteration of `for (const file of files)`; fail names the document
\* whose vault.read or vault.modify rejects, which ends the pass by an
\* exception since the loop has no try/catch
RewriteFile(st, file, oldId, newName, newId, fail) ==
    LET content == st.docs[file]
        updatedContent == UpdatedContent(content, oldId, newName, newId)
        reads == Append(st.readCalls, file)
    IN  IF fail.read = file
        THEN [st EXCEPT !.readCalls = reads, !.thrown = TRUE]
        ELSE IF ContentWasUpdated(updatedContent, content)
        THEN IF fail.write = file
             THEN [st EXCEPT !.readCalls = reads, !.thrown = TRUE,
                             !.modifyCalls = Append(@, [file |-> file,
                                                        data |-> updatedContent])]
             ELSE [st EXCEPT !.readCalls = reads,
                             !.docs[file] = updatedContent,
                             !.modifyCalls = Append(@, [file |-> file,
                                                        data |-> updatedContent]),
                             !.total = @ + wikilinkMatches(content, oldId)
                                         + mentionLinkMatches(content, oldId)]
        ELSE [st EXCEPT !.readCalls = reads]

RECURSIVE RewriteFrom(_, _, _, _, _, _)
RewriteFrom(st, k, oldId, newName, newId, fail) ==
    IF k > Len(Files) \/ st.thrown THEN st
    ELSE RewriteFrom(RewriteFile(st, Files[k], oldId, newName, newId, fail),
                     k + 1, oldId, newName, newId, fail)

\* the pass over app.vault.getMarkdownFiles(), in the vault's file order
updateMentionsForParticipant(vault, oldId, newName, newId, fail) ==
    RewriteFrom(StartPass(vault), 1, oldId, newName, newId, fail)

---------------------------------------------------------------------------
(* The scanner's two patterns (main.ts:376-395) *)

NoMatch == [end |-> 0, id |-> << >>, name |-> << >>]

\* /@\[\[([^\]|]+)\|([^\]]+)\]\]/g tried at position i
WikilinkScanMatch(text, i) ==
    LET idEnd == RunEnd(text, i + 3, {"]", "|"})
        nameEnd == RunEnd(text, idEnd + 1, {"]"})
    IN  IF /\ LitAt(text, i, <<"@", "[", "[">>)
           /\ idEnd > i + 3
           /\ Ch(text, idEnd) = "|"
           /\ nameEnd > idEnd + 1
           /\ LitAt(text, nameEnd, <<"]", "]">>)
        THEN [end |-> nameEnd + 2,
              id |-> SubSeq(text, i + 3, idEnd - 1),
              name |-> SubSeq(text, idEnd + 1, nameEnd - 1)]
        ELSE NoMatch

\* /@\[([^\]]+)\]\(mention:\/\/([^\)]+)\)/g tried at position i
MentionLinkScanMatch(text, i) ==
    LET nameEnd == RunEnd(text, i + 2, {"]"})
        idEnd == RunEnd(text, nameEnd + 3, {")"})
    IN  IF /\ LitAt(text, i, <<"@", "[">>)
           /\ nameEnd > i + 2
           /\ LitAt(text, nameEnd, <<"]", "(", MentionScheme>>)
           /\ idEnd > nameEnd + 3
           /\ Ch(text, idEnd) = ")"
        THEN [end |-> idEnd + 1,
              id |-> SubSeq(text, nameEnd + 3, idEnd - 1),
              name |-> SubSeq(text, i + 2, nameEnd - 1)]
        ELSE NoMatch

ScanMatch(form, text, i) ==
    IF text[i] # "@" THEN NoMatch
    ELSE IF form = "wikilink" THEN WikilinkScanMatch(text, i)
    ELSE MentionLinkScanMatch(text, i)

\* `while ((match = regex.exec(content)) !== null)`: the matches of one
\* pattern in text order, each with the position it starts at
RECURSIVE ScanFrom(_, _, _)
ScanFrom(form, text, i) ==
    IF i > Len(text) THEN << >>
    ELSE LET m == ScanMatch(form, text, i)
         IN  IF m.end > 0
             THEN <<[id |-> m.id, name |-> m.name, start |-> i]>>
                  \o ScanFrom(form, text, m.end)
             ELSE ScanFrom(form, text, i + 1)

---------------------------------------------------------------------------
(* generateParticipantsFromVault (main.ts:362-406) *)

Participant(id, name) == [id |-> id, name |-> name]

\* participantsMap.has(id)
MapHas(map, id) == \E k \in 1..Len(map) : map[k].id = id

\* participantsMap.set(id, name): a Map keeps insertion order, and setting a
\* key it holds replaces the value in place
MapSet(map, id, name) ==
    IF MapHas(map, id)
    THEN [k \in 1..Len(map) |->
             IF map[k].id = id THEN Participant(id, name) ELSE map[k]]
    ELSE Append(map, Participant(id, name))

\* `for (const participant of this.settings.participants)` (main.ts:366-368)
SeedMapNone(map, seed) == map

RECURSIVE SeedMap(_, _)
SeedMap(map, seed) ==
    IF seed = << >> THEN map
    ELSE SeedMap(MapSet(map, Head(seed).id, Head(seed).name), Tail(seed))

\* `if (id && name && !participantsMap.has(id)) participantsMap.set(id, name)`
\* over the matches of one pattern
RECURSIVE AddMatches(_, _)
AddMatches(map, matches) ==
    IF matches = << >> THEN map
    ELSE LET m == Head(matches)
         IN  AddMatches(IF m.id # << >> /\ m.name # << >> /\ ~MapHas(map, m.id)
                        THEN MapSet(map, m.id, m.name)
                        ELSE map,
                        Tail(matches))

\* one iteration of the file loop: all wikilink matches first, then all
\* mention-link matches
ScanFile(map, content) ==
    AddMatches(AddMatches(map, ScanFrom("wikilink", content, 1)),
               ScanFrom("mentionLink", content, 1))

\* the file loop; a rejected cachedRead ends the method by an exception
RECURSIVE GenerateFrom(_, _, _, _)
GenerateFrom(st, k, vault, fail) ==
    IF k > Len(Files) \/ st.thrown THEN st
    ELSE GenerateFrom(
             IF fail.read = Files[k]
             THEN [st EXCEPT !.readCalls = Append(@, Files[k]), !.thrown = TRUE]
             ELSE [st EXCEPT !.readCalls = Append(@, Files[k]),
                             !.map = ScanFile(@, vault[Files[k]])],
             k + 1, vault, fail)

\* the participants array the method assigns to settings.participants,
\* which is left as it was when the method throws
generateParticipantsFromVault(seed, vault, fail) ==
    LET st == GenerateFrom([map |-> SeedMap(<< >>, seed), readCalls |-> << >>,
                            thrown |-> FALSE], 1, vault, fail)
    IN  [participants |-> IF st.thrown THEN seed ELSE st.map,
         readCalls |-> st.readCalls, thrown |-> st.thrown]

---------------------------------------------------------------------------
(* performMentionSearch (main.ts:86-168) *)

\* String.prototype.toLowerCase on the characters of the model
LowerCh(c) ==
    IF c = "A" THEN "a" ELSE IF c = "B" THEN "b"
    ELSE IF c = "M" THEN "m" ELSE IF c = "E" THEN "e" ELSE c

toLowerCase(str) == [k \in 1..Len(str) |-> LowerCh(str[k])]

\* String.prototype.includes
includesAtStart(str, sub) == Len(sub) <= Len(str) /\ SubSeq(str, 1, Len(sub)) = sub

includes(str, sub) ==
    \E i \in 0..(Len(str) - Len(sub)) : SubSeq(str, i + 1, i + Len(sub)) = sub

QueryMe == <<"m", "e">>

\* query.toLowerCase() === "me"
QueryIsMeExactly(query) == query = QueryMe

QueryIsMe(query) == toLowerCase(query) = QueryMe

\* this.getActiveUserId(): `externalUserMapping?.[computerId] || null`,
\* where the empty string counts as no id
getActiveUserId(mapping, computerId) == mapping[computerId]

\* ${participantId} interpolated into a RegExp with the flags 'gi'
ParticipantIdAt(text, i, participantId) ==
    \A k \in 1..Len(participantId) :
        /\ Ch(text, i + k - 1) # "EOF"
        /\ \/ participantId[k] = "."
           \/ LowerCh(Ch(text, i + k - 1)) = LowerCh(participantId[k])

\* wikilinkPattern.test(content) (main.ts:135-136)
wikilinkPatternTest(content, participantId) ==
    \E i \in 1..Len(content) :
        LET bar == i + 3 + Len(participantId) IN
        /\ LitAt(content, i, <<"@", "[", "[">>)
        /\ ParticipantIdAt(content, i + 3, participantId)
        /\ Ch(content, bar) = "|"
        /\ LitAt(content, RunEnd(content, bar + 1, {"]"}), <<"]", "]">>)

\* linkPattern.test(content) (main.ts:142-143)
linkPatternTest(content, participantId) ==
    \E i \in 1..Len(content) :
        /\ LitAt(content, i, <<"@", "[">>)
        /\ LET close == RunEnd(content, i + 2, {"]"}) IN
           /\ LitAt(content, close, <<"]", "(", MentionScheme>>)
           /\ ParticipantIdAt(content, close + 3, participantId)
           /\ Ch(content, close + 3 + Len(participantId)) = ")"

\* foundInFile of one file
FoundInFile(content, ids) ==
    \E k \in 1..Len(ids) :
        wikilinkPatternTest(content, ids[k]) \/ linkPatternTest(content, ids[k])

\* matchingParticipants.map(p => p.id)
IdsOf(ps) == [k \in 1..Len(ps) |-> ps[k].id]

\* the query parsing of performMentionSearch: the ids to find, or << >>
\* when the method returns before it reads any file
ParticipantIdsFor(query, ps, mapping, computerId) ==
    IF QueryIsMe(query)
    THEN LET activeUserId == getActiveUserId(mapping, computerId)
             IsActive(p) == p.id = activeUserId
         IN  IF activeUserId # << >> /\ SelectSeq(ps, IsActive) # << >>
             THEN <<activeUserId>>
             ELSE << >>
    ELSE LET Matches(p) ==
                 \/ includes(toLowerCase(p.name), toLowerCase(query))
                 \/ includes(toLowerCase(p.id), toLowerCase(query))
         IN  IdsOf(SelectSeq(ps, Matches))

\* `for (const file of files)` of performMentionSearch; a rejected
\* cachedRead ends the method by an exception and no result is shown
RECURSIVE SearchFrom(_, _, _, _, _)
SearchFrom(st, k, vault, ids, fail) ==
    IF k > Len(Files) \/ st.thrown THEN st
    ELSE SearchFrom(
             IF fail.read = Files[k]
             THEN [st EXCEPT !.readCalls = Append(@, Files[k]), !.thrown = TRUE,
                             !.matchingFiles = << >>]
             ELSE [st EXCEPT !.readCalls = Append(@, Files[k]),
                             !.matchingFiles =
                                 IF FoundInFile(vault[Files[k]], ids)
                                 THEN Append(@, Files[k]) ELSE @],
             k + 1, vault, ids, fail)

performMentionSearch(query, ps, mapping, computerId, vault, fail) ==
    LET ids == ParticipantIdsFor(query, ps, mapping, computerId)
        none == [matchingFiles |-> << >>, readCalls |-> << >>, thrown |-> FALSE]
    IN  [ids |-> ids] @@ (IF ids = << >> THEN none
                          ELSE SearchFrom(none, 1, vault, ids, fail))

---------------------------------------------------------------------------
(* The vaults the model starts from *)

\* what a user may have typed into a note: a mention in either form (with a
\* current, a stale or an empty display name), a plain character, or an
\* opening "@[" that no "]" closes
Fragments ==
    {WikilinkText(IdA, NameA), WikilinkText(IdA, NameB), WikilinkText(IdA, << >>),
     WikilinkText(IdAB, NameA), WikilinkText(IdADot, NameA),
     MentionLinkText(IdA, NameA), MentionLinkText(IdA, << >>),
     MentionLinkText(IdAB, NameA),
     <<"x">>, <<"@", "[", "x">>}

EmptyVault == [d \in DocIds |-> << >>]

\* placements: which fragment is appended to which document, in order
Placements(frags) ==
    UNION {[1..k -> DocIds \X frags] : k \in 0..MaxFrags}

RECURSIVE Place(_, _, _)
Place(vault, placement, k) ==
    IF k > Len(placement) THEN vault
    ELSE Place([vault EXCEPT ![placement[k][1]] = @ \o placement[k][2]],
               placement, k + 1)

\* every vault that holds at most MaxFrags of the fragments
VaultsOf(frags) == {Place(EmptyVault, placement, 1) : placement \in Placements(frags)}

Vaults == VaultsOf(Fragments)

\* the fragments of the specifications that run more than one operation
SmallFragments ==
    {WikilinkText(IdA, NameA), WikilinkText(IdAB, NameA),
     MentionLinkText(IdA, NameB), <<"x">>}

SmallVaults == VaultsOf(SmallFragments)

NoTransition == [oldId |-> << >>, newName |-> << >>, newId |-> << >>]

\* no event of the user interface yet
NoEvent == [name |-> "", index |-> 0, field |-> "", value |-> << >>,
            id |-> << >>]

\* data.json as loaded: the participants of the vault's settings
Loaded(ps) == [participants |-> ps, saveCalls |-> 0]

\* await this.saveData({settings: this.settings})
saveSettings(data, ps) == [participants |-> ps, saveCalls |-> data.saveCalls + 1]

---------------------------------------------------------------------------
(* Specification of the rewrite engine alone: one pass over a vault, then *)
(* the same pass once more                                                *)

InitRewrite ==
    /\ tasks = << >>
    /\ lastEvent = NoEvent
    /\ docs \in Vaults
    /\ participants = << >>
    /\ savedData = Loaded(participants)
    /\ autoUpdateMentions = TRUE
    /\ generateButton = FALSE
    /\ steps = 0
    /\ suggestions = << >>
    /\ hasProcess = TRUE
    /\ searchCall = NoSearch
    /\ externalUserMapping = NoMapping
    /\ phase = "start"
    /\ preDocs = docs
    /\ preParticipants = << >>
    /\ transition = NoTransition
    /\ returned = -1
    /\ modifyCalls = << >>
    /\ readCalls = << >>
    /\ rewriteCalls = << >>
    /\ thrown = FALSE
    /\ failure = NoFailure
    /\ matchingFiles = << >>
    /\ participantIdsToFind = << >>

\* await this.plugin.updateMentionsForParticipant(oldId, newName, newId),
\* with at most one document whose vault.modify rejects
UpdateMentions ==
    /\ phase = "start"
    /\ \E oldId \in Ids, newName \in RewriteNames, newId \in Ids :
         \E ok \in {updateMentionsForParticipant(docs, oldId, newName, newId,
                                                 NoFailure)} :
         \E w \in {0} \cup {ok.modifyCalls[k].file : k \in 1..Len(ok.modifyCalls)} :
         LET fail == [read |-> 0, write |-> w] IN
         \E r \in {IF w = 0 THEN ok
                   ELSE updateMentionsForParticipant(docs, oldId, newName, newId,
                                                     fail)} :
             /\ docs' = r.docs
             /\ preDocs' = docs
             /\ transition' = [oldId |-> oldId, newName |-> newName, newId |-> newId]
             /\ returned' = IF r.thrown THEN -1 ELSE r.total
             /\ modifyCalls' = r.modifyCalls
             /\ readCalls' = r.readCalls
             /\ thrown' = r.thrown
             /\ failure' = fail
    /\ phase' = "once"
    /\ rewriteCalls' = <<transition'>>
    /\ UNCHANGED <<tasks, lastEvent, savedData, participants, autoUpdateMentions, generateButton, steps,
                   suggestions, hasProcess, searchCall,
                   externalUserMapping,
                   preParticipants, matchingFiles, participantIdsToFind>>

\* the same call again, right after a pass that completed
UpdateMentionsAgain ==
    /\ phase = "once"
    /\ ~thrown
    /\ \E r \in {updateMentionsForParticipant(docs, transition.oldId,
                    transition.newName, transition.newId, NoFailure)} :
           /\ docs' = r.docs
           /\ preDocs' = docs
           /\ returned' = r.total
           /\ modifyCalls' = r.modifyCalls
           /\ readCalls' = r.readCalls
    /\ phase' = "twice"
    /\ rewriteCalls' = Append(rewriteCalls, transition)
    /\ UNCHANGED <<tasks, lastEvent, savedData, participants, autoUpdateMentions, generateButton, steps,
                   suggestions, hasProcess, searchCall,
                   externalUserMapping,
                   preParticipants, transition, thrown, failure, matchingFiles,
                   participantIdsToFind>>

NextRewrite == UpdateMentions \/ UpdateMentionsAgain

SpecRewrite == InitRewrite /\ [][NextRewrite]_vars

---------------------------------------------------------------------------
(* What the claims mean by "a mention": the two surface forms             *)
(* `@[[<id>|<name>]]` and `@[<name>](mention://<id>)`, with a non-empty id *)
(* and a name that may be empty                                           *)

Forms == {"wikilink", "mentionLink"}

WikilinkAt(text, i) ==
    LET idEnd == RunEnd(text, i + 3, {"]", "|"})
        nameEnd == RunEnd(text, idEnd + 1, {"]"})
    IN  IF /\ LitAt(text, i, <<"@", "[", "[">>)
           /\ idEnd > i + 3
           /\ Ch(text, idEnd) = "|"
           /\ LitAt(text, nameEnd, <<"]", "]">>)
        THEN [end |-> nameEnd + 2,
              id |-> SubSeq(text, i + 3, idEnd - 1),
              name |-> SubSeq(text, idEnd + 1, nameEnd - 1)]
        ELSE NoMatch

MentionLinkAt(text, i) ==
    LET nameEnd == RunEnd(text, i + 2, {"]"})
        idEnd == RunEnd(text, nameEnd + 3, {")"})
    IN  IF /\ LitAt(text, i, <<"@", "[">>)
           /\ LitAt(text, nameEnd, <<"]", "(", MentionScheme>>)
           /\ idEnd > nameEnd + 3
           /\ Ch(text, idEnd) = ")"
        THEN [end |-> idEnd + 1,
              id |-> SubSeq(text, nameEnd + 3, idEnd - 1),
              name |-> SubSeq(text, i + 2, nameEnd - 1)]
        ELSE NoMatch

MentionAt(form, text, i) ==
    IF form = "wikilink" THEN WikilinkAt(text, i) ELSE MentionLinkAt(text, i)

\* the mentions of one form in a text, in text order
RECURSIVE MentionsFrom(_, _, _)
MentionsFrom(form, text, i) ==
    IF i > Len(text) THEN << >>
    ELSE LET m == MentionAt(form, text, i)
         IN  IF m.end > 0
             THEN <<[id |-> m.id, name |-> m.name]>> \o MentionsFrom(form, text, m.end)
             ELSE MentionsFrom(form, text, i + 1)

Mentions(form, text) == MentionsFrom(form, text, 1)

\* a text in which every mention whose id is exactly oldId is replaced by
\* the mention of (newId, newName) in the same form, and nothing else changes
RECURSIVE RewrittenExactly(_, _, _)
RewrittenExactly(text, i, t) ==
    IF i > Len(text) THEN << >>
    ELSE LET w == WikilinkAt(text, i)
             l == MentionLinkAt(text, i)
         IN  IF w.end > 0
             THEN (IF w.id = t.oldId THEN WikilinkText(t.newId, t.newName)
                   ELSE SubSeq(text, i, w.end - 1))
                  \o RewrittenExactly(text, w.end, t)
             ELSE IF l.end > 0
             THEN (IF l.id = t.oldId THEN MentionLinkText(t.newId, t.newName)
                   ELSE SubSeq(text, i, l.end - 1))
                  \o RewrittenExactly(text, l.end, t)
             ELSE <<text[i]>> \o RewrittenExactly(text, i + 1, t)

\* the number of entries of a sequence of mentions that carry the id
RECURSIVE CountId(_, _)
CountId(ms, id) ==
    IF ms = << >> THEN 0
    ELSE (IF Head(ms).id = id THEN 1 ELSE 0) + CountId(Tail(ms), id)

RECURSIVE SumOver(_, _)
SumOver(f, S) ==
    IF S = {} THEN 0
    ELSE LET d == CHOOSE x \in S : TRUE IN f[d] + SumOver(f, S \ {d})

PassCompleted == phase = "once" /\ ~thrown

---------------------------------------------------------------------------
(* Claims about the rewrite engine, checked under SpecRewrite *)

\* C1 (as claimed): a completed rewrite keeps, in every document, the number and order
\* of the mentions of each form, and every mention that carried oldId
\* carries newId and newName afterwards, in the form it had before.
C1_Counterexample ==
    PassCompleted =>
        \A d \in DocIds, form \in Forms :
            LET before == Mentions(form, preDocs[d])
                after == Mentions(form, docs[d])
            IN  /\ Len(after) = Len(before)
                /\ \A k \in 1..Len(before) :
                       before[k].id = transition.oldId =>
                           after[k] = [id |-> transition.newId,
                                       name |-> transition.newName]

\* C3 (as claimed): the second of two equal rewrite passes in a row leaves every
\* document with the text the first pass left.
C3_Counterexample == phase = "twice" => docs = preDocs

\* C4 (as claimed): the total a completed pass returns is the number of
\* mentions with id oldId that the scanner's two patterns find in the vault
\* as it was before the pass.
C4_Counterexample ==
    PassCompleted =>
        returned = SumOver([d \in DocIds |->
                        CountId(ScanFrom("wikilink", preDocs[d], 1), transition.oldId)
                        + CountId(ScanFrom("mentionLink", preDocs[d], 1),
                                  transition.oldId)], DocIds)

C6_Counterexample ==
    PassCompleted =>
        \A d \in DocIds : docs[d] = RewrittenExactly(preDocs[d], 1, transition)

\* C7 (as claimed): when the write of one document fails, every document is
\* still read, every other document is rewritten, and a total is returned.
C7_Counterexample ==
    (phase = "once" /\ failure.write # 0) =>
        /\ returned >= 0
        /\ Len(readCalls) = Len(Files)
        /\ \A d \in DocIds \ {failure.write} :
               docs[d] = UpdatedContent(preDocs[d], transition.oldId,
                                        transition.newName, transition.newId)

---------------------------------------------------------------------------
(* Specification of the two read-only corpus passes: one                  *)
(* generateParticipantsFromVault or one performMentionSearch on a vault   *)

\* settings.participants as the settings tab and the autocomplete leave
\* it: no two entries with one id
UniqueIds(ps) == \A j, k \in 1..Len(ps) : ps[j].id = ps[k].id => j = k

SeedRecords ==
    {Participant(IdA, NameB), Participant(IdAB, NameA), Participant(IdADot, NameA)}

Seeds ==
    {ps \in UNION {[1..n -> SeedRecords] : n \in 0..MaxParticipants} : UniqueIds(ps)}

\* this computer's user has chosen participant a
ActiveA == [c \in ComputerIds |-> IF c = ThisComputer THEN IdA ELSE << >>]
\* only the user of the other computer has chosen a participant
ActiveElsewhere == [c \in ComputerIds |-> IF c = "c2" THEN IdAB ELSE << >>]

Queries == {QueryMe, <<"M", "e">>, <<"a">>, <<"B">>}

InitScan ==
    /\ tasks = << >>
    /\ lastEvent = NoEvent
    /\ docs \in SmallVaults
    /\ participants \in Seeds
    /\ savedData = Loaded(participants)
    /\ autoUpdateMentions = TRUE
    /\ generateButton = FALSE
    /\ steps = 0
    /\ suggestions = << >>
    /\ hasProcess \in BOOLEAN
    /\ searchCall = NoSearch
    /\ externalUserMapping \in {NoMapping, ActiveA, ActiveElsewhere}
    /\ phase = "start"
    /\ preDocs = docs
    /\ preParticipants = participants
    /\ transition = NoTransition
    /\ returned = -1
    /\ modifyCalls = << >>
    /\ readCalls = << >>
    /\ rewriteCalls = << >>
    /\ thrown = FALSE
    /\ failure = NoFailure
    /\ matchingFiles = << >>
    /\ participantIdsToFind = << >>

\* await this.plugin.generateParticipantsFromVault(), with at most one
\* document whose cachedRead rejects
GenerateParticipants ==
    /\ phase = "start"
    /\ \E f \in {0} \cup DocIds :
       \E r \in {generateParticipantsFromVault(participants, docs,
                                               [read |-> f, write |-> 0])} :
           /\ participants' = r.participants
           /\ savedData' = IF r.thrown THEN savedData
                           ELSE saveSettings(savedData, r.participants)
           /\ readCalls' = r.readCalls
           /\ thrown' = r.thrown
           /\ failure' = [read |-> f, write |-> 0]
    /\ phase' = "generated"
    /\ UNCHANGED <<tasks, lastEvent, docs, autoUpdateMentions, generateButton, steps,
                   suggestions, hasProcess, searchCall,
                   externalUserMapping, preDocs,
                   preParticipants, transition, returned, modifyCalls,
                   rewriteCalls, matchingFiles, participantIdsToFind>>

\* await this.setActiveUser(userId): from the dropdown of the settings tab
\* and the modal (a participant's id) or from "Clear Active User" ('')
SetActiveUser ==
    /\ phase = "start"
    /\ \E userId \in {participants[k].id : k \in 1..Len(participants)} \cup {<< >>},
          computerId \in getComputerIdentifier(hasProcess) :
           /\ externalUserMapping' = [externalUserMapping EXCEPT ![computerId] = userId]
           /\ transition' = [oldId |-> << >>, newName |-> << >>, newId |-> userId]
    /\ savedData' = saveSettings(savedData, participants)
    /\ phase' = "activeUserSet"
    /\ UNCHANGED <<tasks, lastEvent, docs, participants, autoUpdateMentions, generateButton, steps,
                   suggestions, hasProcess, searchCall, preDocs, preParticipants,
                   returned, modifyCalls, readCalls, rewriteCalls, thrown,
                   failure, matchingFiles, participantIdsToFind>>

\* a search that also stores the mentions it finds as participants
MentionSearchSeeding ==
    /\ phase \in {"start", "activeUserSet"}
    /\ \E query \in Queries, computerId \in getComputerIdentifier(hasProcess) :
       \E r \in {performMentionSearch(query, participants, externalUserMapping,
                                      computerId, docs, NoFailure)} :
           /\ searchCall' = [query |-> query, computerId |-> computerId]
           /\ matchingFiles' = r.matchingFiles
           /\ participantIdsToFind' = r.ids
           /\ readCalls' = r.readCalls
           /\ thrown' = r.thrown
           /\ failure' = NoFailure
    /\ participants' = generateParticipantsFromVault(participants, docs,
                                                     NoFailure).participants
    /\ phase' = "searched"
    /\ UNCHANGED <<tasks, lastEvent, savedData, docs, autoUpdateMentions, generateButton, steps,
                   suggestions, hasProcess, externalUserMapping,
                   preDocs, preParticipants, transition, returned, modifyCalls,
                   rewriteCalls>>

\* await this.performMentionSearch(query), with at most one document whose
\* cachedRead rejects
MentionSearch ==
    /\ phase \in {"start", "activeUserSet"}
    /\ \E query \in Queries, computerId \in getComputerIdentifier(hasProcess) :
       \E ok \in {performMentionSearch(query, participants, externalUserMapping,
                                       computerId, docs, NoFailure)} :
       \E f \in {0} \cup {ok.readCalls[k] : k \in 1..Len(ok.readCalls)} :
       \E r \in {IF f = 0 THEN ok
                 ELSE performMentionSearch(query, participants, externalUserMapping,
                                           computerId, docs,
                                           [read |-> f, write |-> 0])} :
           /\ searchCall' = [query |-> query, computerId |-> computerId]
           /\ matchingFiles' = r.matchingFiles
           /\ participantIdsToFind' = r.ids
           /\ readCalls' = r.readCalls
           /\ thrown' = r.thrown
           /\ failure' = [read |-> f, write |-> 0]
    /\ phase' = "searched"
    /\ UNCHANGED <<tasks, lastEvent, savedData, docs, participants, autoUpdateMentions, generateButton, steps,
                   suggestions, hasProcess, externalUserMapping,
                   preDocs, preParticipants, transition, returned, modifyCalls,
                   rewriteCalls>>

NextScan == GenerateParticipants \/ SetActiveUser \/ MentionSearch

SpecScan == InitScan /\ [][NextScan]_vars

---------------------------------------------------------------------------
(* Claims about the scan and the search, checked under SpecScan *)

\* the vault without the text of the document that could not be read
WithoutUnreadable == [d \in DocIds |-> IF d = failure.read THEN << >> ELSE docs[d]]

\* C8 (as claimed): when the read of one document fails, the scan and the
\* search skip that document and still produce their result from all the
\* other documents.
C8_Counterexample ==
    /\ (phase = "generated" /\ failure.read # 0) =>
           /\ ~thrown
           /\ participants =
                  generateParticipantsFromVault(preParticipants, WithoutUnreadable,
                                                NoFailure).participants
    /\ (phase = "searched" /\ failure.read # 0) =>
           /\ ~thrown
           /\ matchingFiles =
                  SearchFrom([matchingFiles |-> << >>, readCalls |-> << >>,
                              thrown |-> FALSE], 1, WithoutUnreadable,
                             participantIdsToFind, NoFailure).matchingFiles

\* C9: every participant that was in settings.participants when
\* generateParticipantsFromVault started is in it, with the same id and the
\* same name, when the method has ended.
C9_SeedPreserved ==
    phase = "generated" =>
        \A k \in 1..Len(preParticipants) :
            \E j \in 1..Len(participants) : participants[j] = preParticipants[k]

\* C9 witness: a completed scan that added a participant while a document
\* gave a seeded id another name than the seed
C9_Witness ==
    /\ phase = "generated"
    /\ ~thrown
    /\ Len(participants) > Len(preParticipants)
    /\ \E k \in 1..Len(preParticipants), d \in DocIds, form \in Forms :
           \E j \in 1..Len(ScanFrom(form, docs[d], 1)) :
               /\ ScanFrom(form, docs[d], 1)[j].id = preParticipants[k].id
               /\ ScanFrom(form, docs[d], 1)[j].name # preParticipants[k].name

\* the occurrences of an id in one text, of both forms
OccurrencesOf(text, id) ==
    UNION {{o \in {ScanFrom(form, text, 1)[j] :
                      j \in 1..Len(ScanFrom(form, text, 1))} : o.id = id}
               : form \in Forms}

\* the name of the occurrence of id that comes first in the vault: in the
\* first file that holds one, the one that starts first in the text
FirstNameInTextOrder(vault, id) ==
    LET first == CHOOSE k \in 1..Len(Files) :
                     /\ OccurrencesOf(vault[Files[k]], id) # {}
                     /\ \A j \in 1..(k - 1) :
                            OccurrencesOf(vault[Files[j]], id) = {}
        occ == OccurrencesOf(vault[Files[first]], id)
    IN  (CHOOSE o \in occ : \A o2 \in occ : o.start <= o2.start).name

\* C10 (as claimed): an id that is not in the seed gets the name of its
\* first occurrence in corpus order and, within a document, in text order,
\* whatever the form of the occurrences.
C10_Counterexample ==
    (phase = "generated" /\ ~thrown) =>
        \A j \in 1..Len(participants) :
            (~MapHas(preParticipants, participants[j].id)) =>
                participants[j].name = FirstNameInTextOrder(docs, participants[j].id)

---------------------------------------------------------------------------
(* The settings tab (settings.ts) *)

\* String.prototype.trim on the model's characters: the blanks at both
\* ends are dropped
RECURSIVE trim(_)
trim(s) ==
    IF s = << >> THEN s
    ELSE IF Head(s) = " " THEN trim(Tail(s))
    ELSE IF s[Len(s)] = " " THEN trim(SubSeq(s, 1, Len(s) - 1))
    ELSE s

\* Array.prototype.find: the first entry that satisfies the test, as a
\* position in the list (0: undefined)
FirstOf(hits) == IF hits = {} THEN 0 ELSE CHOOSE k \in hits : \A j \in hits : k <= j

\* newParticipants.find(p => p.id === oldParticipant.id)
FindById(newParticipants, oldParticipant) ==
    FirstOf({k \in 1..Len(newParticipants) :
                 newParticipants[k].id = oldParticipant.id})

\* newParticipants.find(p => p.name === oldParticipant.name &&
\*                           p.id !== oldParticipant.id)
FindRenamed(newParticipants, oldParticipant) ==
    FirstOf({k \in 1..Len(newParticipants) :
                 /\ newParticipants[k].name = oldParticipant.name
                 /\ newParticipants[k].id # oldParticipant.id})

\* await this.plugin.updateMentionsForParticipant(...) inside
\* updateChangedMentions; vault reads and writes succeed
RewriteCall(st, oldId, newName, newId) ==
    LET r == updateMentionsForParticipant(st.docs, oldId, newName, newId, NoFailure)
    IN  [docs |-> r.docs,
         totalUpdated |-> st.totalUpdated + r.total,
         rewriteCalls |-> Append(st.rewriteCalls,
                                 [oldId |-> oldId, newName |-> newName,
                                  newId |-> newId]),
         modifyCalls |-> st.modifyCalls \o r.modifyCalls]

\* 1. participants where the id stayed the same but the name changed
RECURSIVE NameChangedFrom(_, _, _, _)
NameChangedFrom(st, k, oldParticipants, newParticipants) ==
    IF k > Len(oldParticipants) THEN st
    ELSE LET oldParticipant == oldParticipants[k]
             n == FindById(newParticipants, oldParticipant)
         IN  NameChangedFrom(
                 IF n # 0 /\ oldParticipant.name # newParticipants[n].name
                 THEN RewriteCall(st, oldParticipant.id, newParticipants[n].name,
                                  newParticipants[n].id)
                 ELSE st,
                 k + 1, oldParticipants, newParticipants)

\* 2. participants where the name stayed the same but the id changed
RECURSIVE IdChangedFrom(_, _, _, _)
IdChangedFrom(st, k, oldParticipants, newParticipants) ==
    IF k > Len(oldParticipants) THEN st
    ELSE LET oldParticipant == oldParticipants[k]
             n == FindRenamed(newParticipants, oldParticipant)
         IN  IdChangedFrom(
                 IF n # 0
                 THEN RewriteCall(st, oldParticipant.id, newParticipants[n].name,
                                  newParticipants[n].id)
                 ELSE st,
                 k + 1, oldParticipants, newParticipants)

\* updateChangedMentions without the check of the flag at its head
updateChangedMentionsAlways(vault, enabled, oldParticipants, newParticipants) ==
    LET st == [docs |-> vault, totalUpdated |-> 0, rewriteCalls |-> << >>,
               modifyCalls |-> << >>]
    IN  IdChangedFrom(NameChangedFrom(st, 1, oldParticipants, newParticipants),
                      1, oldParticipants, newParticipants)

updateChangedMentions(vault, enabled, oldParticipants, newParticipants) ==
    LET st == [docs |-> vault, totalUpdated |-> 0, rewriteCalls |-> << >>,
               modifyCalls |-> << >>]
    IN  IF ~enabled THEN st
        ELSE IdChangedFrom(NameChangedFrom(st, 1, oldParticipants, newParticipants),
                           1, oldParticipants, newParticipants)

\* what is typed into an id field or a name field
IdInputs == Ids \cup {<< >>, <<" ", "a">>, <<"a", "]">>}
NameInputs == Names \cup {<< >>, <<"B", " ">>, <<"A", "]">>}

\* the state after construction: DEFAULT_SETTINGS and a vault of notes
Init ==
    /\ tasks = << >>
    /\ lastEvent = NoEvent
    /\ docs \in SmallVaults
    /\ participants = << >>
    /\ savedData = Loaded(participants)
    /\ autoUpdateMentions = TRUE
    /\ generateButton = FALSE
    /\ steps = 0
    /\ suggestions = << >>
    /\ hasProcess = TRUE
    /\ searchCall = NoSearch
    /\ externalUserMapping = NoMapping
    /\ phase = "start"
    /\ preDocs = docs
    /\ preParticipants = << >>
    /\ transition = NoTransition
    /\ returned = -1
    /\ modifyCalls = << >>
    /\ readCalls = << >>
    /\ rewriteCalls = << >>
    /\ thrown = FALSE
    /\ failure = NoFailure
    /\ matchingFiles = << >>
    /\ participantIdsToFind = << >>

\* what every handler of the settings tab leaves alone; each handler is one
\* step, and the model runs at most MaxSteps of them (steps < MaxSteps)
SettingsTabStep ==
    /\ steps' = steps + 1
    /\ UNCHANGED <<tasks, lastEvent, suggestions, hasProcess, searchCall,
                   externalUserMapping, returned, readCalls, thrown,
                   failure, matchingFiles, participantIdsToFind>>

\* display(): the tab is opened; the button is created only when the list
\* is empty
Display ==
    /\ steps < MaxSteps
    /\ generateButton' = (Len(participants) = 0)
    /\ phase' = "displayed"
    /\ preDocs' = docs
    /\ preParticipants' = participants
    /\ transition' = NoTransition
    /\ rewriteCalls' = << >>
    /\ modifyCalls' = << >>
    /\ UNCHANGED <<tasks, lastEvent, savedData, docs, participants, autoUpdateMentions>>
    /\ SettingsTabStep

\* the toggle's onChange
ToggleAutoUpdate ==
    /\ steps < MaxSteps
    /\ autoUpdateMentions' = ~autoUpdateMentions
    /\ savedData' = saveSettings(savedData, participants)
    /\ phase' = "toggled"
    /\ preDocs' = docs
    /\ preParticipants' = participants
    /\ transition' = NoTransition
    /\ rewriteCalls' = << >>
    /\ modifyCalls' = << >>
    /\ UNCHANGED <<docs, participants, generateButton>>
    /\ SettingsTabStep

\* the handler's effect on the vault and on the records of the last operation
SettingsChanged(oldParticipants, newParticipants, edit, name) ==
    \E r \in {updateChangedMentions(docs, autoUpdateMentions, oldParticipants,
                                    newParticipants)} :
        /\ participants' = newParticipants
        /\ savedData' = saveSettings(savedData, newParticipants)
        /\ docs' = r.docs
        /\ rewriteCalls' = r.rewriteCalls
        /\ modifyCalls' = r.modifyCalls
        /\ preDocs' = docs
        /\ preParticipants' = oldParticipants
        /\ transition' = edit
        /\ phase' = name
        /\ UNCHANGED <<autoUpdateMentions, generateButton>>
        /\ SettingsTabStep

\* addButton click; a handler that returns early changes nothing
AddParticipant ==
    /\ steps < MaxSteps
    /\ \E idValue \in IdInputs, nameValue \in NameInputs :
        LET id == trim(idValue)
            name == trim(nameValue)
        IN  /\ id # << >> /\ name # << >>
            /\ ~\E k \in 1..Len(participants) :
                    participants[k].id = id \/ participants[k].name = name
            /\ Len(participants) < MaxParticipants
            /\ SettingsChanged(participants, Append(participants, Participant(id, name)),
                               [oldId |-> << >>, newName |-> name, newId |-> id],
                               "added")

\* deleteBtn click on the row of index
DeleteParticipant ==
    /\ steps < MaxSteps
    /\ \E index \in 1..Len(participants) :
        SettingsChanged(participants,
                        SubSeq(participants, 1, index - 1)
                            \o SubSeq(participants, index + 1, Len(participants)),
                        NoTransition, "deleted")

\* the button's onClick: generateParticipantsFromVault, then
\* updateChangedMentions on the list before and the list after
GenerateFromVault ==
    /\ steps < MaxSteps
    /\ generateButton
    /\ SettingsChanged(participants,
                       generateParticipantsFromVault(participants, docs,
                                                     NoFailure).participants,
                       NoTransition, "generatedFromVault")

\* this.plugin.settings.participants.some((p, i) => p.id === newValue &&
\* i !== index), and the same test on the name
ValueExistsNever(ps, index, field, newValue) == FALSE

ValueExists(ps, index, field, newValue) ==
    \E i \in 1..Len(ps) :
        /\ i # index
        /\ (IF field = "id" THEN ps[i].id ELSE ps[i].name) = newValue

\* handleParticipantUpdate(index, field, newValue), from the change and the
\* blur listeners of a row; a handler that returns early changes nothing
HandleParticipantUpdate ==
    /\ steps < MaxSteps
    /\ \E index \in 1..Len(participants), field \in {"id", "name"} :
       \E typed \in (IF field = "id" THEN IdInputs ELSE NameInputs) :
        LET participant == participants[index]
            oldValue == IF field = "id" THEN participant.id ELSE participant.name
            newValue == trim(typed)
            exists == ValueExists(participants, index, field, newValue)
            edited == IF field = "id" THEN Participant(newValue, participant.name)
                      ELSE Participant(participant.id, newValue)
        IN  /\ newValue # << >>
            /\ oldValue # newValue
            /\ ~exists
            /\ SettingsChanged(participants,
                               [participants EXCEPT ![index] = edited],
                               [oldId |-> participant.id, newName |-> edited.name,
                                newId |-> edited.id],
                               "edited")

---------------------------------------------------------------------------
(* The autocomplete popup of the editor (main.ts:434-550) *)

\* the prefix of the id of a suggestion that stands for a participant to
\* create; its four letters are kept together as one character
NewPrefix == "NEW:"

\* what is typed after "@" in a note: /@(\S*)$/ with a non-empty group
AutocompleteQueries == {<<"a">>, <<"B">>, <<"c", "]">>}

\* getSuggestions(context)
getSuggestions(ps, contextQuery) ==
    LET query == toLowerCase(contextQuery)
        Matches(participant) ==
            \/ includes(toLowerCase(participant.id), query)
            \/ includes(toLowerCase(participant.name), query)
        matchingParticipants == SelectSeq(ps, Matches)
    IN  IF query # << >> /\ Len(matchingParticipants) = 0
        THEN <<[id |-> <<NewPrefix>> \o query, name |-> query]>>
        ELSE matchingParticipants

\* suggestion.id.startsWith('NEW:')
startsWithNew(id) == id # << >> /\ Head(id) = NewPrefix

\* this.plugin.settings.participants.some(p => p.id === newParticipant.id ||
\* p.name === newParticipant.name)
ParticipantExistsById(ps, id, name) ==
    \E k \in 1..Len(ps) : ps[k].id = id

ParticipantExists(ps, id, name) ==
    \E k \in 1..Len(ps) : ps[k].id = id \/ ps[k].name = name

\* the replacement text of selectSuggestion (main.ts:541-546)
SuggestionReplacementWikilink(useWikilinks, id, name) == WikilinkText(id, name)

SuggestionReplacement(useWikilinks, id, name) ==
    IF useWikilinks THEN WikilinkText(id, name) ELSE MentionLinkText(id, name)

\* the popup opens on the text typed after "@"
GetSuggestions ==
    /\ steps < MaxSteps
    /\ \E contextQuery \in AutocompleteQueries :
           suggestions' = getSuggestions(participants, contextQuery)
    /\ phase' = "suggested"
    /\ preDocs' = docs
    /\ preParticipants' = participants
    /\ transition' = NoTransition
    /\ rewriteCalls' = << >>
    /\ modifyCalls' = << >>
    /\ steps' = steps + 1
    /\ UNCHANGED <<tasks, lastEvent, savedData, docs, participants, autoUpdateMentions, generateButton,
                   hasProcess, searchCall, externalUserMapping, returned,
                   readCalls, thrown, failure, matchingFiles,
                   participantIdsToFind>>

\* selectSuggestion(suggestion, evt) in the note file, whose typed "@..." is
\* the end of the note; a declined confirm() returns with nothing changed
SelectSuggestion ==
    /\ steps < MaxSteps
    /\ \E k \in 1..Len(suggestions), file \in DocIds,
          shouldCreate \in BOOLEAN, useWikilinks \in BOOLEAN :
           LET suggestion == suggestions[k]
               isNew == startsWithNew(suggestion.id)
               id == IF isNew THEN Tail(suggestion.id) ELSE suggestion.id
               exists == ParticipantExists(participants, id, suggestion.name)
           IN  /\ isNew => shouldCreate
               /\ participants' =
                      IF isNew /\ ~exists
                      THEN Append(participants, Participant(id, suggestion.name))
                      ELSE participants
               /\ savedData' =
                      IF isNew /\ ~exists
                      THEN saveSettings(savedData, participants')
                      ELSE savedData
               /\ docs' = [docs EXCEPT ![file] =
                              @ \o SuggestionReplacement(useWikilinks, id,
                                                         suggestion.name)]
               /\ transition' = [oldId |-> << >>, newName |-> suggestion.name,
                                 newId |-> id]
    /\ suggestions' = << >>
    /\ phase' = "selected"
    /\ preDocs' = docs
    /\ preParticipants' = participants
    /\ rewriteCalls' = << >>
    /\ modifyCalls' = << >>
    /\ steps' = steps + 1
    /\ UNCHANGED <<tasks, lastEvent, autoUpdateMentions, generateButton, hasProcess, searchCall,
                   externalUserMapping, returned, readCalls, thrown, failure,
                   matchingFiles, participantIdsToFind>>

Next ==
    \/ Display
    \/ ToggleAutoUpdate
    \/ AddParticipant
    \/ DeleteParticipant
    \/ GenerateFromVault
    \/ HandleParticipantUpdate
    \/ GetSuggestions
    \/ SelectSuggestion

Spec == Init /\ [][Next]_vars

---------------------------------------------------------------------------
(* Claims about the settings tab, checked under Spec *)

\* C2 (as claimed): with auto-update enabled, when handleParticipantUpdate
\* has changed a participant's id or name and has ended, every mention that
\* carried the participant's previous id carries the participant's current
\* id and current name, in every document.
C2_Counterexample ==
    (phase = "edited" /\ autoUpdateMentions) =>
        \A d \in DocIds, form \in Forms :
            LET before == Mentions(form, preDocs[d])
                after == Mentions(form, docs[d])
            IN  \A j \in 1..Len(before) :
                    before[j].id = transition.oldId =>
                        /\ j <= Len(after)
                        /\ after[j].id = transition.newId
                        /\ after[j].name = transition.newName

\* C11: in every state reached through add, edit id, edit name, delete,
\* create-from-autocomplete and generate-from-vault, no two entries of
\* settings.participants have the same id.
C11_UniqueIds == UniqueIds(participants)

\* C11 witness: the list holds two participants after an id was edited, or
\* after the autocomplete created a participant
C11_Witness ==
    /\ Len(participants) >= 2
    /\ \/ phase = "edited" /\ transition.oldId # transition.newId
       \/ phase = "selected" /\ Len(participants) > Len(preParticipants)

---------------------------------------------------------------------------
(* Claims about the search and the active user, checked under SpecScan *)

\* the scanner's decoding finds in the text an occurrence, of either form,
\* whose id equals one of the ids ignoring case
DecodedOccurrenceOf(text, ids) ==
    \E form \in Forms :
        \E j \in 1..Len(ScanFrom(form, text, 1)) :
            \E k \in 1..Len(ids) :
                toLowerCase(ScanFrom(form, text, 1)[j].id) = toLowerCase(ids[k])

\* C12 (as claimed): the documents that performMentionSearch reports are
\* exactly the documents in which the scanner's decoding finds an occurrence,
\* in either form, whose id equals one of the searched ids ignoring case.
C12_Counterexample ==
    (phase = "searched" /\ ~thrown) =>
        {matchingFiles[k] : k \in 1..Len(matchingFiles)} =
            {d \in DocIds : DecodedOccurrenceOf(docs[d], participantIdsToFind)}

---------------------------------------------------------------------------
(* Claims about the characters of ids and names *)

\* an id without the delimiters of the two forms, a name without "]"
ValidId(id) == id # << >> /\ \A k \in 1..Len(id) : id[k] \notin {"]", "|", ")"}
ValidName(name) == name # << >> /\ \A k \in 1..Len(name) : name[k] # "]"

\* C13 (as claimed): an id that contains "]", "|" or ")" and a name that
\* contains "]" are rejected by the add form, by the edit of a row and by
\* the creation from the autocomplete: no such handler completes with such
\* an id or name, changes the list or produces a mention text from it.
C13_Counterexample ==
    phase \in {"added", "edited", "selected"} =>
        \/ ValidId(transition.newId) /\ ValidName(transition.newName)
        \/ participants = preParticipants /\ docs = preDocs

---------------------------------------------------------------------------
(* Specification of the codec: the mention text that selectSuggestion     *)
(* writes for a suggestion, read back by the scanner's patterns           *)

\* the characters of the encoded ids and names: a letter and the
\* characters that the two forms use as delimiters, without the forbidden
\* ones
IdChars == {"a", "@", "[", "("}
NameChars == {"A", "@", "[", "|"}

StringsOver(chars) == UNION {[1..n -> chars] : n \in 1..MaxLen}

InitCodec ==
    /\ tasks = << >>
    /\ lastEvent = NoEvent
    /\ docs = EmptyVault
    /\ participants = << >>
    /\ savedData = Loaded(participants)
    /\ autoUpdateMentions = TRUE
    /\ generateButton = FALSE
    /\ steps = 0
    /\ suggestions \in {<<[id |-> id, name |-> name]>> :
                            id \in StringsOver(IdChars), name \in StringsOver(NameChars)}
    /\ hasProcess = TRUE
    /\ searchCall = NoSearch
    /\ externalUserMapping = NoMapping
    /\ phase = "start"
    /\ preDocs = docs
    /\ preParticipants = << >>
    /\ transition = NoTransition
    /\ returned = -1
    /\ modifyCalls = << >>
    /\ readCalls = << >>
    /\ rewriteCalls = << >>
    /\ thrown = FALSE
    /\ failure = NoFailure
    /\ matchingFiles = << >>
    /\ participantIdsToFind = << >>

\* the replacement of selectSuggestion for the suggestion, written into an
\* empty note
EncodeSuggestion ==
    /\ phase = "start"
    /\ \E useWikilinks \in BOOLEAN :
           /\ docs' = [docs EXCEPT ![Files[1]] =
                          SuggestionReplacement(useWikilinks, suggestions[1].id,
                                                suggestions[1].name)]
           /\ phase' = IF useWikilinks THEN "wikilink" ELSE "mentionLink"
    /\ transition' = [oldId |-> << >>, newName |-> suggestions[1].name,
                      newId |-> suggestions[1].id]
    /\ UNCHANGED <<tasks, lastEvent, savedData, participants, autoUpdateMentions, generateButton, steps,
                   suggestions, hasProcess, searchCall,
                   externalUserMapping, preDocs, preParticipants,
                   returned, modifyCalls, readCalls, rewriteCalls, thrown,
                   failure, matchingFiles, participantIdsToFind>>

NextCodec == EncodeSuggestion

SpecCodec == InitCodec /\ [][NextCodec]_vars

\* C14: for a valid id and name and either form, the patterns of
\* generateParticipantsFromVault find in the text of selectSuggestion
\* exactly one occurrence; it has the form of the text, the id and the name.
C14_RoundTrip ==
    (phase \in Forms /\ ValidId(transition.newId) /\ ValidName(transition.newName)) =>
        LET text == docs[Files[1]]
            other == CHOOSE form \in Forms : form # phase
        IN  /\ Len(ScanFrom(phase, text, 1)) = 1
            /\ ScanFrom(phase, text, 1)[1].id = transition.newId
            /\ ScanFrom(phase, text, 1)[1].name = transition.newName
            /\ ScanFrom(other, text, 1) = << >>

\* C14 witness: an explicit mention was written whose name holds the start
\* of a wikilink and whose id holds the start of a mention
C14_Witness ==
    /\ phase = "mentionLink"
    /\ transition.newName = <<"@", "[", "[">>
    /\ transition.newId = <<"@", "[", "a">>
    /\ Len(ScanFrom("mentionLink", docs[Files[1]], 1)) = 1

---------------------------------------------------------------------------
(* More claims about the rewrite engine, checked under SpecRewrite *)

\* C15 (as claimed): the total a completed pass returns is the sum, over
\* all documents, of the matches of the two oldId patterns in the text the
\* document had before the pass.
C15_Counterexample ==
    PassCompleted =>
        returned = SumOver([d \in DocIds |->
                        wikilinkMatches(preDocs[d], transition.oldId)
                        + mentionLinkMatches(preDocs[d], transition.oldId)], DocIds)

\* C16 (as claimed): the second of two equal rewrite passes in a row calls vault.modify
\* for no document and returns 0.
C16_Counterexample ==
    phase = "twice" => (modifyCalls = << >> /\ returned = 0)

---------------------------------------------------------------------------
(* Claims about the query and the active user, checked under SpecScan *)

\* the spellings of "me" in the letters of the model
MeSpellings == {<<"m", "e">>, <<"M", "e">>, <<"m", "E">>, <<"M", "E">>}

\* C17: a search for "me", in any letter case, looks for exactly the id
\* that externalUserMapping holds for the computer identifier of the call;
\* when that entry is empty or is the id of no participant, no document is
\* read and there is no result.
C17_MeIsActiveUser ==
    (phase = "searched" /\ searchCall.query \in MeSpellings) =>
        LET active == externalUserMapping[searchCall.computerId]
        IN  IF active # << >> /\ \E k \in 1..Len(participants) : participants[k].id = active
            THEN participantIdsToFind = <<active>>
            ELSE /\ participantIdsToFind = << >>
                 /\ readCalls = << >>
                 /\ matchingFiles = << >>

\* C17 witness: "Me" found a note of the active user
C17_Witness ==
    /\ phase = "searched"
    /\ searchCall.query = <<"M", "e">>
    /\ participantIdsToFind = <<IdA>>
    /\ matchingFiles # << >>

\* sub occurs in str when the letter case is ignored
ContainsIgnoringCase(str, sub) ==
    \E i \in 0..(Len(str) - Len(sub)) :
        \A k \in 1..Len(sub) : LowerCh(str[i + k]) = LowerCh(sub[k])

C19_Counterexample ==
    [][phase' = "activeUserSet" =>
           /\ \A computerId \in getComputerIdentifier(hasProcess) :
                  getActiveUserId(externalUserMapping', computerId) = transition'.newId
           /\ \A c \in ComputerIds \ getComputerIdentifier(hasProcess) :
                  externalUserMapping'[c] = externalUserMapping[c]
           /\ participants' = participants
           /\ docs' = docs]_vars

---------------------------------------------------------------------------
(* Claim about the auto-update flag, checked under Spec *)

ListActions == {"added", "edited", "deleted", "generatedFromVault"}

\* C20: while autoUpdateMentions is disabled, an add, edit, delete or
\* generate action on the participant list starts no rewrite pass, writes no
\* document, and leaves the text of every document as it was.
C20_DisabledChangesNoDocument ==
    (phase \in ListActions /\ ~autoUpdateMentions) =>
        /\ docs = preDocs
        /\ rewriteCalls = << >>
        /\ modifyCalls = << >>

\* C20 witness: with the flag off, a participant was edited whose mentions
\* the enabled update would have rewritten
C20_Witness ==
    /\ phase = "edited"
    /\ ~autoUpdateMentions
    /\ participants # preParticipants
    /\ updateChangedMentionsAlways(preDocs, FALSE, preParticipants, participants).docs
           # preDocs

---------------------------------------------------------------------------
(* Specification of the three vault operations of the plugin object, each  *)
(* started once on a vault and a participant list: a rewrite pass, a       *)
(* mention search, a scan for participants                                 *)

InitFrame ==
    /\ InitScan
    /\ hasProcess = TRUE
    /\ externalUserMapping = ActiveA

NextFrame == UpdateMentions \/ MentionSearch \/ GenerateParticipants

SpecFrame == InitFrame /\ [][NextFrame]_vars

\* C21: a mention search and a rewrite pass leave settings.participants as
\* it was, a mention search and generateParticipantsFromVault write no
\* document, and of the three only the generate action changes the list.
C21_Frame ==
    [][/\ phase' \in {"searched", "once"} => participants' = participants
       /\ phase' \in {"searched", "generated"} =>
              (docs' = docs /\ modifyCalls' = << >>)
       /\ participants' # participants => phase' = "generated"]_vars

\* C21 witness: a rewrite pass changed the mentions of a listed participant
\* in some document
C21_Witness ==
    /\ phase = "once"
    /\ docs # preDocs
    /\ \E k \in 1..Len(participants) : participants[k].id = transition.oldId

---------------------------------------------------------------------------
(* Claim about the calls of updateChangedMentions, checked under Spec *)

\* C24 (as claimed): every rewrite that a handler of the settings tab issues
\* is for the id of a participant whose id or name is not the same in the
\* list before and the list after, and an add or a delete issues no rewrite
\* and changes no document, also when two participants have the same name.
C24_Counterexample ==
    phase \in ListActions =>
        /\ \A c \in 1..Len(rewriteCalls) :
               \E k \in 1..Len(preParticipants) :
                   /\ preParticipants[k].id = rewriteCalls[c].oldId
                   /\ \A j \in 1..Len(participants) :
                          participants[j] # preParticipants[k]
        /\ phase \in {"added", "deleted"} =>
               (rewriteCalls = << >> /\ docs = preDocs)

---------------------------------------------------------------------------
(* Specification of the settings tab with its active-user selection       *)
(* (settings.ts:323-380): the handlers of the participant list and the    *)
(* dropdown and the clear button                                          *)

\* the dropdown's change listener with a participant's option selected
\* (the empty default option calls nothing), and the clear button's click
ChooseActiveUser ==
    /\ steps < MaxSteps
    /\ \E userId \in {participants[k].id : k \in 1..Len(participants)} \cup {<< >>},
          computerId \in getComputerIdentifier(hasProcess) :
           /\ externalUserMapping' = [externalUserMapping EXCEPT ![computerId] = userId]
           /\ transition' = [oldId |-> << >>, newName |-> << >>, newId |-> userId]
    /\ savedData' = saveSettings(savedData, participants)
    /\ phase' = "activeUserChosen"
    /\ preDocs' = docs
    /\ preParticipants' = participants
    /\ rewriteCalls' = << >>
    /\ modifyCalls' = << >>
    /\ steps' = steps + 1
    /\ UNCHANGED <<tasks, lastEvent, docs, participants, autoUpdateMentions,
                   generateButton, suggestions, hasProcess, searchCall, returned,
                   readCalls, thrown, failure, matchingFiles,
                   participantIdsToFind>>

NextActive ==
    \/ Display
    \/ AddParticipant
    \/ DeleteParticipant
    \/ GenerateFromVault
    \/ HandleParticipantUpdate
    \/ ChooseActiveUser

SpecActive == Init /\ [][NextActive]_vars

\* C27 (as claimed): whenever getActiveUserId returns an id, that id is the
\* id of a participant of settings.participants.
C27_Counterexample ==
    \A computerId \in getComputerIdentifier(hasProcess) :
        LET activeUserId == getActiveUserId(externalUserMapping, computerId)
        IN  activeUserId # << >> =>
                \E k \in 1..Len(participants) : participants[k].id = activeUserId

---------------------------------------------------------------------------
(* The handlers as the event loop runs them: a handler runs from the      *)
(* event to its first await on the vault or on saveData, and again from   *)
(* the completion of each await to the next one. A task is one handler    *)
(* that has been started, with its local variables.                       *)

\* handlers that the model starts from clicks and change events
MaxTasks == 2
\* clicks and change events on the participant list
MaxEvents == 2

\* what is typed into an id field or a name field while handlers run
TypedIds == {IdA, IdADot, << >>, <<" ", "a">>}
TypedNames == {NameA, NameB, << >>, <<"B", " ">>}

\* a handler at the call of updateChangedMentions(oldParticipants,
\* this.plugin.settings.participants): newParticipants is the array of the
\* settings (live) until generateParticipantsFromVault assigns another array
\* to the settings; from then on it is the array as it was left (new)
StartedTask(kind, oldParticipants) ==
    [kind |-> kind, pc |-> "start", old |-> oldParticipants,
     live |-> TRUE, new |-> << >>,
     loop |-> 1, i |-> 0, call |-> NoTransition,
     k |-> 0, content |-> << >>, map |-> << >>,
     calls |-> << >>, saved |-> FALSE]

\* both loops of updateChangedMentions have ended
LoopsEnded == [loop |-> 3, i |-> 0, call |-> NoTransition]

\* the two loops of updateChangedMentions from position i of loop on, up to
\* the next call of updateMentionsForParticipant
RECURSIVE NextCallFrom(_, _, _, _)
NextCallFrom(oldParticipants, newParticipants, loop, i) ==
    IF loop >= 3 THEN LoopsEnded
    ELSE IF i > Len(oldParticipants)
    THEN NextCallFrom(oldParticipants, newParticipants, loop + 1, 1)
    ELSE LET oldParticipant == oldParticipants[i]
             n == IF loop = 1 THEN FindById(newParticipants, oldParticipant)
                  ELSE FindRenamed(newParticipants, oldParticipant)
             found == IF loop = 1
                      THEN n # 0 /\ oldParticipant.name # newParticipants[n].name
                      ELSE n # 0
         IN  IF found
             THEN [loop |-> loop, i |-> i,
                   call |-> [oldId |-> oldParticipant.id,
                             newName |-> newParticipants[n].name,
                             newId |-> newParticipants[n].id]]
             ELSE NextCallFrom(oldParticipants, newParticipants, loop, i + 1)

\* the handler from the entry of updateChangedMentions (first) or from the
\* end of a rewrite pass on: up to the first read of the next pass, or,
\* when no call is left, through `await this.plugin.saveSettings()` of the
\* add, edit and delete handlers; the generate handler does not save here
Resume(task, ps, data, first, enabled) ==
    LET newParticipants == IF task.live THEN ps ELSE task.new
        r == IF first /\ ~enabled THEN LoopsEnded
             ELSE NextCallFrom(task.old, newParticipants, task.loop, task.i + 1)
    IN  IF r.loop = 3
        THEN IF task.kind = "generate"
             THEN [task |-> [task EXCEPT !.pc = "done", !.loop = 3], data |-> data]
             ELSE [task |-> [task EXCEPT !.pc = "done", !.loop = 3, !.saved = TRUE],
                   data |-> saveSettings(data, ps)]
        ELSE [task |-> [task EXCEPT !.pc = "read", !.loop = r.loop, !.i = r.i,
                                    !.call = r.call, !.k = 1,
                                    !.calls = Append(@, r.call)],
              data |-> data]

\* `for (const file of files)` of updateMentionsForParticipant after the
\* iteration of file k
NextFile(task, ps, data) ==
    IF task.k < Len(Files)
    THEN [task |-> [task EXCEPT !.pc = "read", !.k = @ + 1], data |-> data]
    ELSE Resume(task, ps, data, FALSE, TRUE)

\* what a step of the event loop leaves alone, and the records of the step
EventLoopStep(name) ==
    /\ phase' = name
    /\ preDocs' = docs
    /\ preParticipants' = participants
    /\ UNCHANGED <<autoUpdateMentions, hasProcess, searchCall,
                   externalUserMapping, transition, returned, modifyCalls,
                   readCalls, rewriteCalls, thrown, failure, matchingFiles,
                   participantIdsToFind>>

\* `await this.app.vault.read(file)` completes; when the text needs no
\* change the loop goes on to the next file without a write
PassRead ==
    /\ \E n \in 1..Len(tasks) :
        /\ tasks[n].pc = "read"
        /\ LET task == tasks[n]
               content == docs[Files[task.k]]
               updatedContent == UpdatedContent(content, task.call.oldId,
                                                task.call.newName, task.call.newId)
           IN  IF ContentWasUpdated(updatedContent, content)
               THEN /\ tasks' = [tasks EXCEPT ![n] =
                                    [task EXCEPT !.pc = "write", !.content = content]]
                    /\ savedData' = savedData
               ELSE \E r \in {NextFile(task, participants, savedData)} :
                        /\ tasks' = [tasks EXCEPT ![n] = r.task]
                        /\ savedData' = r.data
    /\ UNCHANGED <<docs, participants, generateButton, steps, suggestions, lastEvent>>
    /\ EventLoopStep("passRead")

\* `await this.app.vault.modify(file, updatedContent)`: the text computed
\* from the content that was read is written
PassWrite ==
    /\ \E n \in 1..Len(tasks) :
        /\ tasks[n].pc = "write"
        /\ LET task == tasks[n]
           IN  /\ docs' = [docs EXCEPT ![Files[task.k]] =
                              UpdatedContent(task.content, task.call.oldId,
                                             task.call.newName, task.call.newId)]
               /\ \E r \in {NextFile(task, participants, savedData)} :
                      /\ tasks' = [tasks EXCEPT ![n] = r.task]
                      /\ savedData' = r.data
    /\ UNCHANGED <<participants, generateButton, steps, suggestions, lastEvent>>
    /\ EventLoopStep("passWrite")

\* a vault.read, vault.modify or vault.cachedRead rejects: no handler
\* catches, so the handler ends there
AwaitRejects ==
    /\ \E n \in 1..Len(tasks) :
        /\ tasks[n].pc \in {"read", "write", "scan"}
        /\ tasks' = [tasks EXCEPT ![n] = [@ EXCEPT !.pc = "thrown"]]
    /\ UNCHANGED <<docs, participants, savedData, generateButton, steps,
                   suggestions, lastEvent>>
    /\ EventLoopStep("awaitRejected")

\* addButton click, up to its first await; a rejected click returns at
\* settings.ts:98-107
AddClick ==
    /\ steps < MaxEvents
    /\ lastEvent.name # "change"
    /\ \E idValue \in TypedIds, nameValue \in TypedNames :
        LET id == trim(idValue)
            name == trim(nameValue)
        IN  /\ lastEvent' = [name |-> "add", index |-> 0, field |-> "",
                             value |-> name, id |-> id]
            /\ IF id = << >> \/ name = << >> \/ ParticipantExists(participants, id, name)
               THEN UNCHANGED <<participants, tasks, savedData>>
               ELSE /\ Len(tasks) < MaxTasks
                    /\ Len(participants) < MaxParticipants
                    /\ participants' = Append(participants, Participant(id, name))
                    /\ \E r \in {Resume(StartedTask("add", participants), participants',
                                        savedData, TRUE, autoUpdateMentions)} :
                           /\ tasks' = Append(tasks, r.task)
                           /\ savedData' = r.data
    /\ steps' = steps + 1
    /\ UNCHANGED <<docs, generateButton, suggestions>>
    /\ EventLoopStep("addClick")

\* deleteBtn click on the row of index, up to its first await
DeleteClick ==
    /\ steps < MaxEvents
    /\ lastEvent.name # "change"
    /\ Len(tasks) < MaxTasks
    /\ \E index \in 1..Len(participants) :
        /\ lastEvent' = [name |-> "delete", index |-> index, field |-> "",
                         value |-> << >>, id |-> << >>]
        /\ participants' = SubSeq(participants, 1, index - 1)
                               \o SubSeq(participants, index + 1, Len(participants))
        /\ \E r \in {Resume(StartedTask("delete", participants), participants',
                            savedData, TRUE, autoUpdateMentions)} :
               /\ tasks' = Append(tasks, r.task)
               /\ savedData' = r.data
    /\ steps' = steps + 1
    /\ UNCHANGED <<docs, generateButton, suggestions>>
    /\ EventLoopStep("deleteClick")

\* handleParticipantUpdate(index, field, typed) up to its first await; it
\* returns early at settings.ts:276-292, 299-302 and 307-310, and does
\* nothing when the value is the one the participant has
handleParticipantUpdate(index, field, typed, maxTasks) ==
    IF index > Len(participants) THEN UNCHANGED <<participants, tasks, savedData>>
    ELSE
    LET participant == participants[index]
        oldValue == IF field = "id" THEN participant.id ELSE participant.name
        newValue == trim(typed)
        edited == IF field = "id" THEN Participant(newValue, participant.name)
                  ELSE Participant(participant.id, newValue)
    IN  IF \/ newValue = << >>
           \/ oldValue = newValue
           \/ ValueExists(participants, index, field, newValue)
        THEN UNCHANGED <<participants, tasks, savedData>>
        ELSE /\ Len(tasks) < maxTasks
             /\ participants' = [participants EXCEPT ![index] = edited]
             /\ \E r \in {Resume(StartedTask("edit", participants), participants',
                                 savedData, TRUE, autoUpdateMentions)} :
                    /\ tasks' = Append(tasks, r.task)
                    /\ savedData' = r.data

\* the 'change' listener of the id input or the name input of a row
FieldChange ==
    /\ steps < MaxEvents
    /\ lastEvent.name # "change"
    /\ \E index \in 1..Len(participants), field \in {"id", "name"} :
       \E typed \in (IF field = "id" THEN TypedIds ELSE TypedNames) :
        /\ lastEvent' = [name |-> "change", index |-> index, field |-> field,
                         value |-> typed, id |-> << >>]
        /\ handleParticipantUpdate(index, field, typed, MaxTasks)
    /\ steps' = steps + 1
    /\ UNCHANGED <<docs, generateButton, suggestions>>
    /\ EventLoopStep("fieldChange")

\* the 'blur' listener of the same input: the field that fired 'change'
\* loses the focus with the value it had then, before any other event of
\* the user
FieldBlur ==
    /\ lastEvent.name = "change"
    /\ lastEvent' = [lastEvent EXCEPT !.name = "blur"]
    /\ handleParticipantUpdate(lastEvent.index, lastEvent.field, lastEvent.value,
                               MaxTasks + 1)
    /\ UNCHANGED <<docs, generateButton, suggestions, steps>>
    /\ EventLoopStep("fieldBlur")

---------------------------------------------------------------------------
(* Specification of the participant list of the settings tab with its     *)
(* handlers interleaved at their awaits                                   *)

\* notes that mention both participants of the list
EditVaults ==
    {<<WikilinkText(IdA, NameA) \o WikilinkText(IdAB, NameA), << >> >>,
     <<WikilinkText(IdA, NameA), MentionLinkText(IdAB, NameA)>>}

\* the lists the tab is opened on: with names of their own, and with one
\* name twice, as generateParticipantsFromVault leaves them
EditSeeds ==
    {<<Participant(IdA, NameA), Participant(IdAB, NameB)>>,
     <<Participant(IdA, NameA), Participant(IdAB, NameA)>>,
     <<Participant(IdAB, NameA)>>}

InitEdits ==
    /\ tasks = << >>
    /\ lastEvent = NoEvent
    /\ docs \in EditVaults
    /\ participants \in EditSeeds
    /\ savedData = Loaded(participants)
    /\ autoUpdateMentions \in BOOLEAN
    /\ generateButton = FALSE
    /\ steps = 0
    /\ suggestions = << >>
    /\ hasProcess = TRUE
    /\ searchCall = NoSearch
    /\ externalUserMapping = NoMapping
    /\ phase = "start"
    /\ preDocs = docs
    /\ preParticipants = participants
    /\ transition = NoTransition
    /\ returned = -1
    /\ modifyCalls = << >>
    /\ readCalls = << >>
    /\ rewriteCalls = << >>
    /\ thrown = FALSE
    /\ failure = NoFailure
    /\ matchingFiles = << >>
    /\ participantIdsToFind = << >>

NextEdits ==
    \/ AddClick
    \/ DeleteClick
    \/ FieldChange
    \/ FieldBlur
    \/ PassRead
    \/ PassWrite
    \/ AwaitRejects

SpecEdits == InitEdits /\ [][NextEdits]_vars


---------------------------------------------------------------------------
(* Claims about the interleaved handlers, checked under SpecEdits *)

\* C22 (as claimed): no rewrite pass of an edit writes a document that the
\* rewrite pass of another edit has read and has not yet written.
C22_Counterexample ==
    [][\A n, m \in 1..Len(tasks) :
           (/\ n # m
            /\ tasks[n].kind = "edit" /\ tasks[m].kind = "edit"
            /\ phase' = "passWrite"
            /\ tasks[n].pc = "write" /\ tasks'[n] # tasks[n])
           => ~(tasks[m].pc = "write" /\ tasks[m].k = tasks[n].k)]_vars

\* C26 (as claimed): the 'blur' invocation of handleParticipantUpdate that
\* follows the 'change' invocation with the same value changes no
\* participant, starts no handler and no rewrite pass and does not save, and
\* with auto-update enabled an edit that has ended has started exactly one
\* rewrite pass.
C26_Counterexample ==
    [][/\ phase' = "fieldBlur" =>
              (tasks' = tasks /\ savedData' = savedData /\ participants' = participants)
       /\ \A n \in 1..Len(tasks') :
              (tasks'[n].kind = "edit" /\ tasks'[n].pc = "done" /\ autoUpdateMentions)
              => Len(tasks'[n].calls) = 1]_vars

\* the participants that stand in the way of the value of the last event
TakenByAnother(ps, index, field, value) ==
    \E i \in 1..Len(ps) :
        i # index /\ (IF field = "id" THEN ps[i].id ELSE ps[i].name) = value

\* C28: an add with an empty id or name, or with an id or a name that a
\* participant already has, and an edit to an empty value or to an id or a
\* name that another participant has (the typed value taken without its
\* blanks), leave settings.participants as it
\* was, start no handler and no rewrite, write no document and do not call
\* saveSettings.
C28_RejectedChangesNothing ==
    [][LET e == lastEvent'
           rejectedAdd ==
               /\ phase' = "addClick"
               /\ \/ e.id = << >>
                  \/ e.value = << >>
                  \/ \E k \in 1..Len(participants) :
                         participants[k].id = e.id \/ participants[k].name = e.value
           rejectedEdit ==
               /\ phase' \in {"fieldChange", "fieldBlur"}
               /\ \/ \A c \in 1..Len(e.value) : e.value[c] = " "
                  \/ TakenByAnother(participants, e.index, e.field,
                                    SelectSeq(e.value, LAMBDA c : c # " "))
       IN  (rejectedAdd \/ rejectedEdit) =>
               /\ participants' = participants
               /\ tasks' = tasks
               /\ savedData' = savedData
               /\ docs' = docs]_vars

\* C28 witness: an add with a fresh id and the name of a participant was
\* rejected
C28_Witness ==
    /\ phase = "addClick"
    /\ lastEvent.id # << >> /\ lastEvent.value # << >>
    /\ \E k \in 1..Len(preParticipants) : preParticipants[k].name = lastEvent.value
    /\ \A k \in 1..Len(preParticipants) : preParticipants[k].id # lastEvent.id
    /\ participants = preParticipants

\* the tab opened on two participants that one note mentions, with
\* auto-update enabled
InitSave ==
    /\ InitEdits
    /\ docs = <<WikilinkText(IdA, NameA) \o WikilinkText(IdAB, NameA), << >> >>
    /\ participants = <<Participant(IdA, NameA), Participant(IdAB, NameB)>>
    /\ autoUpdateMentions = TRUE

\* every await on the vault completes, by a result or by a rejection; the
\* user is free to do nothing more
SpecSave ==
    InitSave /\ [][NextEdits]_vars /\ WF_vars(AwaitRejects \/ PassRead \/ PassWrite)

\* C25 (as claimed): whenever settings.participants in memory differs from
\* what was last saved, saveSettings is eventually called with the list as
\* it is in memory, also when a read or a write of the rewrite fails.
C25_Counterexample ==
    (participants # savedData.participants)
        ~> (participants = savedData.participants)

---------------------------------------------------------------------------
(* The "Generate from vault" button as the event loop runs it              *)
(* (settings.ts:139-146, main.ts:362-406)                                  *)

\* the button's click, up to the first `await this.app.vault.cachedRead`:
\* oldParticipants is copied and participantsMap is seeded from the list
\* as it is at the click
GenerateClick ==
    /\ steps < MaxEvents
    /\ generateButton
    /\ lastEvent.name # "change"
    /\ Len(tasks) < MaxTasks
    /\ lastEvent' = [name |-> "generate", index |-> 0, field |-> "",
                     value |-> << >>, id |-> << >>]
    /\ tasks' = Append(tasks,
                       [StartedTask("generate", participants) EXCEPT
                            !.pc = "scan", !.k = 1,
                            !.map = SeedMap(<< >>, participants)])
    /\ steps' = steps + 1
    /\ UNCHANGED <<docs, participants, savedData, generateButton, suggestions>>
    /\ EventLoopStep("generateClick")

\* `await this.app.vault.cachedRead(file)` completes and the matches of the
\* file go into participantsMap; after the last file the array built from
\* the map is assigned to settings.participants and saveSettings is called.
\* A handler that is inside updateChangedMentions keeps the array it was
\* called with.
ScanRead ==
    /\ \E n \in 1..Len(tasks) :
        /\ tasks[n].pc = "scan"
        /\ LET task == tasks[n]
               map == ScanFile(task.map, docs[Files[task.k]])
           IN  IF task.k < Len(Files)
               THEN /\ tasks' = [tasks EXCEPT ![n] =
                                    [task EXCEPT !.map = map, !.k = @ + 1]]
                    /\ UNCHANGED <<participants, savedData>>
               ELSE /\ participants' = map
                    /\ savedData' = saveSettings(savedData, map)
                    /\ tasks' = [m \in 1..Len(tasks) |->
                                    IF m = n
                                    THEN [task EXCEPT !.map = map, !.pc = "saved",
                                                      !.saved = TRUE]
                                    ELSE IF tasks[m].pc \in {"read", "write"}
                                            /\ tasks[m].live
                                    THEN [tasks[m] EXCEPT !.live = FALSE,
                                                          !.new = participants]
                                    ELSE tasks[m]]
    /\ UNCHANGED <<docs, generateButton, steps, suggestions, lastEvent>>
    /\ EventLoopStep("scanRead")

\* `await this.saveSettings()` of generateParticipantsFromVault completes:
\* the click handler goes on with updateChangedMentions(oldParticipants,
\* this.plugin.settings.participants)
GenerateResume ==
    /\ \E n \in 1..Len(tasks) :
        /\ tasks[n].pc = "saved"
        /\ \E r \in {Resume(tasks[n], participants, savedData, TRUE,
                            autoUpdateMentions)} :
               /\ tasks' = [tasks EXCEPT ![n] = r.task]
               /\ savedData' = r.data
    /\ UNCHANGED <<docs, participants, generateButton, steps, suggestions,
                   lastEvent>>
    /\ EventLoopStep("generateResumed")

\* notes of the vault when the tab is opened on an empty list
GenerateVaults ==
    {<< << >>, << >> >>,
     <<WikilinkText(IdAB, <<"a">>), << >> >>,
     <<WikilinkText(IdAB, NameA), MentionLinkText(IdAB, NameB)>>}

\* the tab opened on an empty list: the button is there
InitGenerate ==
    /\ tasks = << >>
    /\ lastEvent = NoEvent
    /\ docs \in GenerateVaults
    /\ participants = << >>
    /\ savedData = Loaded(participants)
    /\ autoUpdateMentions \in BOOLEAN
    /\ generateButton = TRUE
    /\ steps = 0
    /\ suggestions = << >>
    /\ hasProcess = TRUE
    /\ searchCall = NoSearch
    /\ externalUserMapping = NoMapping
    /\ phase = "start"
    /\ preDocs = docs
    /\ preParticipants = participants
    /\ transition = NoTransition
    /\ returned = -1
    /\ modifyCalls = << >>
    /\ readCalls = << >>
    /\ rewriteCalls = << >>
    /\ thrown = FALSE
    /\ failure = NoFailure
    /\ matchingFiles = << >>
    /\ participantIdsToFind = << >>

NextGenerate ==
    \/ GenerateClick
    \/ ScanRead
    \/ GenerateResume
    \/ PassRead
    \/ PassWrite
    \/ AwaitRejects
    \/ AddClick
    \/ GetSuggestions
    \/ SelectSuggestion

SpecGenerate == InitGenerate /\ [][NextGenerate]_vars

\* C23 (as claimed): a participant that was added, through the form or
\* through the autocomplete, while generateParticipantsFromVault was
\* scanning is in settings.participants when the generate action has
\* assigned its list.
C23_Counterexample ==
    [][\A n \in 1..Len(tasks) :
          (tasks[n].pc = "scan" /\ n <= Len(tasks') /\ tasks'[n].pc = "saved") =>
              \A k \in 1..Len(participants) :
                  (\A i \in 1..Len(tasks[n].old) : tasks[n].old[i] # participants[k])
                      => \E j \in 1..Len(participants') :
                             participants'[j] = participants[k]]_vars

\* C29 (as claimed): every mention that selectSuggestion inserts into a
\* note carries an id that is in settings.participants when the step ends;
\* for a "NEW:" suggestion the participant is in the list after the step,
\* or nothing is inserted.
C29_Counterexample ==
    [][(phase' = "selected" /\ docs' # docs) =>
          \E k \in 1..Len(participants') :
              participants'[k].id = transition'.newId]_vars

=============================================================================
